---------------------------- MODULE Spec2Model ----------------------------
(***************************************************************************)
(* A model of the entity components of ArcaneWeaver                        *)
(* (src/src/arcaneweaver/core/entity_system/components.py):                *)
(*                                                                         *)
(*   StatComponent   one numeric statistic with optional min/max bounds    *)
(*   StatsComponent  a list of StatComponent with an optional max_stats    *)
(*   InventoryCellComponent  one inventory cell: an item kind and a count  *)
(*   InventoryComponent  a list of cells with a max_cells limit            *)
(*                                                                         *)
(* The components are pydantic v2 models with validate_assignment=True.    *)
(* Two rules of pydantic decide what the validators see:                   *)
(*   - on construction the fields are validated in declaration order and   *)
(*     validation_info.data holds only the fields validated so far;        *)
(*   - on assignment validation_info.data holds every other field of the   *)
(*     instance, and only the assigned field's validator runs.             *)
(*                                                                         *)
(* Python floats are modelled by integers.  An Optional value is the empty *)
(* sequence (None) or a one-element sequence.  The variables op/args/ret   *)
(* record the last call and its result, stat_old/stats_old the state the   *)
(* call started from (cell_old for the inventory cell, inv_old for the     *)
(* inventory).                                                             *)
(***************************************************************************)
EXTENDS Integers, Sequences, FiniteSets, TLC

VARIABLES
    stat,       \* the single StatComponent of SpecStat
    stat_old,   \* the same instance before the last call
    stats,      \* StatsComponent.stats: a sequence of stat records (SpecStats)
    stats_old,  \* StatsComponent.stats before the last call
    max_stats,  \* StatsComponent.max_stats (Optional)
    cell,       \* the InventoryCellComponent of SpecCell and SpecCellAssign
    cell_old,   \* the same instance before the last call
    inv,        \* the InventoryComponent of SpecInv: cells, max_cells, default_max_stack_size
    inv_old,    \* the same instance before the last call
    pc,         \* SpecAddItem: "overflow" inside the while loop of add_item, else "done"
    remaining,  \* SpecAddItem: remaining_quantity of the add_item in progress
    op,         \* name of the last call
    args,       \* its arguments
    ret,        \* its outcome: [exc |-> ..., val |-> ...]
    resets      \* how many of the latest calls in a row were reset_to_base (0..2)

vars == <<stat, stat_old, stats, stats_old, max_stats, cell, cell_old, inv, inv_old, pc, remaining, op, args, ret, resets>>

(***************************************************************************)
(* Bounds of the model.                                                    *)
(***************************************************************************)
MaxVal == 2         \* stat values range over -MaxVal..MaxVal
MaxStatsBound == 2  \* largest max_stats explored
MaxStack == 3       \* largest max_stack_size explored
MaxQuantity == 3    \* largest quantity handed to add_item and remove_item

Values == (0 - MaxVal)..MaxVal
CollValues == {0, 1}    \* the values of the stats held in a collection
StatNames == {"str", "dex", "int"}
Items == {"potion", "sword"}

(***************************************************************************)
(* Optional values.                                                        *)
(***************************************************************************)
None == <<>>
Some(v) == <<v>>
Opt(S) == {None} \cup {Some(v) : v \in S}

\* dict.get(key): the value, or None when the key is absent
DictGet(values, key) == IF key \in DOMAIN values THEN values[key] ELSE None

\* outcome of a call
Returned(v) == [exc |-> "none", val |-> v]
Raised(e) == [exc |-> e, val |-> None]

(***************************************************************************)
(* StatComponent                                                           *)
(***************************************************************************)
\* declaration order of the fields (component_type, a constant tag, left out)
StatFieldOrder ==
    <<"name", "base_value", "current_value", "min_value", "max_value", "description">>

FieldIndex(f) == CHOOSE i \in 1..Len(StatFieldOrder) : StatFieldOrder[i] = f

\* validation_info.data while field f is validated during construction
DataAtInit(s, f) ==
    [k \in {StatFieldOrder[i] : i \in 1..(FieldIndex(f) - 1)} |-> s[k]]

\* validation_info.data while field f is validated on assignment
DataAtAssign(s, f) == [k \in (DOMAIN s) \ {f} |-> s[k]]

validate_current_value_NoMax(current_value, values) ==
    LET min_val == DictGet(values, "min_value")
    IN  IF min_val # None /\ current_value < min_val[1] THEN min_val[1]
        ELSE current_value

validate_current_value(current_value, values) ==
    LET min_val == DictGet(values, "min_value")
        max_val == DictGet(values, "max_value")
    IN  IF min_val # None /\ current_value < min_val[1] THEN min_val[1]
        ELSE IF max_val # None /\ current_value > max_val[1] THEN max_val[1]
        ELSE current_value

validate_base_value(base_value, values) ==
    LET min_val == DictGet(values, "min_value")
        max_val == DictGet(values, "max_value")
    IN  IF min_val # None /\ base_value < min_val[1] THEN min_val[1]
        ELSE IF max_val # None /\ base_value > max_val[1] THEN max_val[1]
        ELSE base_value

\* StatComponent(**data) without the current_value default of __init__
StatComponent_init_NoDefault(data) ==
    LET raw == [name |-> data.name,
                base_value |-> IF data.base_value = None THEN 0 ELSE data.base_value[1],
                current_value |-> IF data.current_value = None THEN 0
                                  ELSE data.current_value[1],
                min_value |-> data.min_value,
                max_value |-> data.max_value,
                description |-> data.description]
        s1 == IF data.base_value = None THEN raw
              ELSE [raw EXCEPT !.base_value =
                        validate_base_value(raw.base_value, DataAtInit(raw, "base_value"))]
    IN  IF data.current_value = None THEN s1
        ELSE [s1 EXCEPT !.current_value =
                  validate_current_value(s1.current_value, DataAtInit(s1, "current_value"))]

\* StatComponent(**data).  data.base_value / data.current_value are None when
\* the key is absent.  A field validator runs only for a supplied key.
StatComponent_init(data) ==
    LET data1 == IF data.current_value = None /\ data.base_value # None
                 THEN [data EXCEPT !.current_value = data.base_value]
                 ELSE data
        raw == [name |-> data1.name,
                base_value |-> IF data1.base_value = None THEN 0 ELSE data1.base_value[1],
                current_value |-> IF data1.current_value = None THEN 0
                                  ELSE data1.current_value[1],
                min_value |-> data1.min_value,
                max_value |-> data1.max_value,
                description |-> data1.description]
        s1 == IF data1.base_value = None THEN raw
              ELSE [raw EXCEPT !.base_value =
                        validate_base_value(raw.base_value, DataAtInit(raw, "base_value"))]
    IN  IF data1.current_value = None THEN s1
        ELSE [s1 EXCEPT !.current_value =
                  validate_current_value(s1.current_value, DataAtInit(s1, "current_value"))]

\* stat.current_value = v   (validate_assignment=True)
set_current_value(s, v) ==
    [s EXCEPT !.current_value = validate_current_value(v, DataAtAssign(s, "current_value"))]

\* stat.base_value = v
set_base_value_field(s, v) ==
    [s EXCEPT !.base_value = validate_base_value(v, DataAtAssign(s, "base_value"))]

\* stat.min_value = v, stat.max_value = v: no validator is attached to them
set_min_value(s, v) == [s EXCEPT !.min_value = v]
set_max_value(s, v) == [s EXCEPT !.max_value = v]

modify_value_Unclamped(s, modifier) ==
    [s EXCEPT !.current_value = s.current_value + modifier]

\* the stat after modify_value(modifier); it returns the new current_value
modify_value(s, modifier) ==
    LET v0 == s.current_value + modifier
        v1 == IF s.min_value # None /\ v0 < s.min_value[1] THEN s.min_value[1] ELSE v0
        v2 == IF s.max_value # None /\ v1 > s.max_value[1] THEN s.max_value[1] ELSE v1
    IN  set_current_value(s, v2)

reset_to_base_Add(s) == set_current_value(s, s.current_value + s.base_value)

\* the stat after reset_to_base()
reset_to_base(s) == set_current_value(s, s.base_value)

set_base_value_BaseOnly(s, new_value) ==
    LET v1 == IF s.min_value # None /\ new_value < s.min_value[1] THEN s.min_value[1]
              ELSE new_value
        v2 == IF s.max_value # None /\ v1 > s.max_value[1] THEN s.max_value[1] ELSE v1
    IN  set_base_value_field(s, v2)

\* the stat after set_base_value(new_value); it returns the new base_value
set_base_value(s, new_value) ==
    LET v1 == IF s.min_value # None /\ new_value < s.min_value[1] THEN s.min_value[1]
              ELSE new_value
        v2 == IF s.max_value # None /\ v1 > s.max_value[1] THEN s.max_value[1] ELSE v1
    IN  set_current_value(set_base_value_field(s, v2), v2)

(***************************************************************************)
(* StatsComponent.  An operation on the collection yields the new list and *)
(* the outcome of the call: [stats |-> ..., ret |-> ...].                  *)
(***************************************************************************)
validate_stats_count_KeepLast(sts, limit) ==
    IF limit # None /\ Len(sts) > limit[1]
    THEN SubSeq(sts, Len(sts) - limit[1] + 1, Len(sts))
    ELSE sts

\* the model validator: the list cut to its first max_stats entries
validate_stats_count(sts, limit) ==
    IF limit # None /\ Len(sts) > limit[1] THEN SubSeq(sts, 1, limit[1]) ELSE sts

\* StatsComponent(stats=sts, max_stats=limit), limit None or >= 1
StatsComponent_init(sts, limit) == validate_stats_count(sts, limit)

\* component.max_stats = v: the field constraint ge=1, then the model validator
set_max_stats(sts, limit, v) ==
    IF v # None /\ v[1] < 1
    THEN [stats |-> sts, max_stats |-> limit, ret |-> Raised("ValidationError: max_stats")]
    ELSE [stats |-> validate_stats_count(sts, v), max_stats |-> v, ret |-> Returned(None)]

\* index of the first stat called name, 0 when there is none
stat_index(sts, name) ==
    IF \E i \in 1..Len(sts) : sts[i].name = name
    THEN CHOOSE i \in 1..Len(sts) :
             /\ sts[i].name = name
             /\ \A j \in 1..(i - 1) : sts[j].name # name
    ELSE 0

\* get_stat(name): the first stat called name, or None
get_stat(sts, name) ==
    IF stat_index(sts, name) = 0 THEN None ELSE Some(sts[stat_index(sts, name)])

has_stat(sts, name) == get_stat(sts, name) # None

get_stat_names(sts) == [i \in 1..Len(sts) |-> sts[i].name]

\* del self.stats[i]
DeleteAt(sts, i) == [j \in 1..(Len(sts) - 1) |-> IF j < i THEN sts[j] ELSE sts[j + 1]]

remove_stat_Last(sts, name) ==
    LET i == stat_index(sts, name)
    IN  IF i = 0 THEN [stats |-> sts, ret |-> Returned(Some(FALSE))]
        ELSE [stats |-> DeleteAt(sts, Len(sts)), ret |-> Returned(Some(TRUE))]

remove_stat(sts, name) ==
    LET i == stat_index(sts, name)
    IN  IF i = 0 THEN [stats |-> sts, ret |-> Returned(Some(FALSE))]
        ELSE [stats |-> DeleteAt(sts, i), ret |-> Returned(Some(TRUE))]

add_stat_check_existing_NoCheck(sts, name, replace_if_exists) ==
    [stats |-> sts, exc |-> "none"]

add_stat_check_existing_AlwaysReplace(sts, name, replace_if_exists) ==
    IF get_stat(sts, name) # None
    THEN [stats |-> remove_stat(sts, name).stats, exc |-> "none"]
    ELSE [stats |-> sts, exc |-> "none"]

\* add_stat, "Check if stat already exists": the list to go on with, or the error
add_stat_check_existing(sts, name, replace_if_exists) ==
    IF get_stat(sts, name) # None
    THEN IF replace_if_exists
         THEN [stats |-> remove_stat(sts, name).stats, exc |-> "none"]
         ELSE [stats |-> sts, exc |-> "ValueError: already exists"]
    ELSE [stats |-> sts, exc |-> "none"]

add_stat_limit_reached_OffByOne(sts, limit) ==
    limit # None /\ Len(sts) > limit[1]

\* add_stat, "Check max_stats limit"
add_stat_limit_reached(sts, limit) ==
    limit # None /\ Len(sts) >= limit[1]

add_stat_LimitFirst(sts, limit, name, base_value, current_value, min_value, max_value, description, replace_if_exists) ==
    LET checked == add_stat_check_existing(sts, name, replace_if_exists)
        new_stat == StatComponent_init(
                        [name |-> name, base_value |-> Some(base_value),
                         current_value |-> current_value, min_value |-> min_value,
                         max_value |-> max_value, description |-> description])
    IN  IF add_stat_limit_reached(sts, limit)
        THEN [stats |-> sts, ret |-> Raised("ValueError: maximum number of stats reached")]
        ELSE IF checked.exc # "none"
        THEN [stats |-> checked.stats, ret |-> Raised(checked.exc)]
        ELSE [stats |-> Append(checked.stats, new_stat), ret |-> Returned(Some(new_stat))]

\* add_stat(name, base_value, current_value, min_value, max_value, description,
\* replace_if_exists); current_value is None when it is not given
add_stat_InPlace(sts, limit, name, base_value, current_value, min_value, max_value, description, replace_if_exists) ==
    LET new_stat == StatComponent_init(
                        [name |-> name, base_value |-> Some(base_value),
                         current_value |-> current_value, min_value |-> min_value,
                         max_value |-> max_value, description |-> description])
    IN  IF get_stat(sts, name) # None
        THEN IF replace_if_exists
             THEN [stats |-> [sts EXCEPT ![stat_index(sts, name)] = new_stat],
                   ret |-> Returned(Some(new_stat))]
             ELSE [stats |-> sts, ret |-> Raised("ValueError: already exists")]
        ELSE IF add_stat_limit_reached(sts, limit)
        THEN [stats |-> sts, ret |-> Raised("ValueError: maximum number of stats reached")]
        ELSE [stats |-> Append(sts, new_stat), ret |-> Returned(Some(new_stat))]

add_stat(sts, limit, name, base_value, current_value, min_value, max_value, description, replace_if_exists) ==
    LET checked == add_stat_check_existing(sts, name, replace_if_exists)
        new_stat == StatComponent_init(
                        [name |-> name, base_value |-> Some(base_value),
                         current_value |-> current_value, min_value |-> min_value,
                         max_value |-> max_value, description |-> description])
    IN  IF checked.exc # "none"
        THEN [stats |-> checked.stats, ret |-> Raised(checked.exc)]
        ELSE IF add_stat_limit_reached(checked.stats, limit)
        THEN [stats |-> checked.stats,
              ret |-> Raised("ValueError: maximum number of stats reached")]
        ELSE [stats |-> Append(checked.stats, new_stat), ret |-> Returned(Some(new_stat))]

modify_stat_FirstOnMiss(sts, name, modifier) ==
    LET i == IF stat_index(sts, name) = 0 /\ Len(sts) > 0 THEN 1 ELSE stat_index(sts, name)
        s == modify_value(sts[i], modifier)
    IN  IF i = 0 THEN [stats |-> sts, ret |-> Returned(None)]
        ELSE [stats |-> [sts EXCEPT ![i] = s], ret |-> Returned(Some(s.current_value))]

modify_stat(sts, name, modifier) ==
    LET i == stat_index(sts, name)
        s == modify_value(sts[i], modifier)
    IN  IF i = 0 THEN [stats |-> sts, ret |-> Returned(None)]
        ELSE [stats |-> [sts EXCEPT ![i] = s], ret |-> Returned(Some(s.current_value))]

set_stat_base_value(sts, name, new_value) ==
    LET i == stat_index(sts, name)
        s == set_base_value(sts[i], new_value)
    IN  IF i = 0 THEN [stats |-> sts, ret |-> Returned(None)]
        ELSE [stats |-> [sts EXCEPT ![i] = s], ret |-> Returned(Some(s.base_value))]

set_stat_current_value(sts, name, new_value) ==
    LET i == stat_index(sts, name)
        s == set_current_value(sts[i], new_value)
    IN  IF i = 0 THEN [stats |-> sts, ret |-> Returned(None)]
        ELSE [stats |-> [sts EXCEPT ![i] = s], ret |-> Returned(Some(s.current_value))]

reset_stat_to_base(sts, name) ==
    LET i == stat_index(sts, name)
    IN  IF i = 0 THEN [stats |-> sts, ret |-> Returned(Some(FALSE))]
        ELSE [stats |-> [sts EXCEPT ![i] = reset_to_base(sts[i])],
              ret |-> Returned(Some(TRUE))]

reset_all_to_base(sts) ==
    [stats |-> [i \in 1..Len(sts) |-> reset_to_base(sts[i])], ret |-> Returned(None)]

clear_all_stats(sts) == [stats |-> <<>>, ret |-> Returned(Some(Len(sts)))]

(***************************************************************************)
(* InventoryCellComponent.  A cell is a record of its fields; item_id is   *)
(* None or Some(id).  An operation yields the new cell and the outcome of  *)
(* the call: [cell |-> ..., ret |-> ...].                                  *)
(***************************************************************************)
\* declaration order of the fields (component_type left out)
CellFieldOrder == <<"item_id", "quantity", "max_stack_size", "slot_type", "is_equipped">>

CellFieldIndex(f) == CHOOSE i \in 1..Len(CellFieldOrder) : CellFieldOrder[i] = f

\* validation_info.data while field f of a cell is validated during construction
CellDataAtInit(c, f) ==
    [k \in {CellFieldOrder[i] : i \in 1..(CellFieldIndex(f) - 1)} |-> c[k]]

\* the field validator of quantity: values.get("max_stack_size", 1)
validate_quantity(quantity, values) ==
    LET max_stack == IF "max_stack_size" \in DOMAIN values THEN values["max_stack_size"]
                     ELSE 1
    IN  IF quantity > max_stack THEN max_stack ELSE quantity

validate_item_id_and_quantity_KeepsId(c) ==
    IF c.quantity > 0 /\ c.item_id = None
    THEN [cell |-> c, exc |-> "ValidationError: quantity > 0 without an item_id"]
    ELSE [cell |-> c, exc |-> "none"]

\* the model validator: the cell it leaves, and the error it raises if any
validate_item_id_and_quantity(c) ==
    IF c.quantity > 0
    THEN IF c.item_id = None
         THEN [cell |-> c, exc |-> "ValidationError: quantity > 0 without an item_id"]
         ELSE [cell |-> c, exc |-> "none"]
    ELSE IF c.item_id # None
         THEN [cell |-> [c EXCEPT !.item_id = None], exc |-> "none"]
         ELSE [cell |-> c, exc |-> "none"]

\* InventoryCellComponent(**data): data.quantity and data.max_stack_size are
\* None when the key is absent.  On an error there is no cell.
InventoryCellComponent_init(data) ==
    LET q0 == IF data.quantity = None THEN 0 ELSE data.quantity[1]
        m0 == IF data.max_stack_size = None THEN 1 ELSE data.max_stack_size[1]
        raw == [item_id |-> data.item_id, quantity |-> q0, max_stack_size |-> m0,
                slot_type |-> None, is_equipped |-> FALSE]
        c1 == IF data.quantity = None THEN raw
              ELSE [raw EXCEPT !.quantity =
                        validate_quantity(q0, CellDataAtInit(raw, "quantity"))]
        checked == validate_item_id_and_quantity(c1)
    IN  IF q0 < 0 THEN [cell |-> None, ret |-> Raised("ValidationError: quantity")]
        ELSE IF m0 < 1 THEN [cell |-> None, ret |-> Raised("ValidationError: max_stack_size")]
        ELSE IF checked.exc # "none" THEN [cell |-> None, ret |-> Raised(checked.exc)]
        ELSE [cell |-> Some(checked.cell), ret |-> Returned(None)]

is_empty(c) == c.quantity = 0 \/ c.item_id = None

is_full(c) == c.quantity >= c.max_stack_size

Min(a, b) == IF a < b THEN a ELSE b

add_items_NoCap(c, item_id, add_quantity) ==
    IF add_quantity <= 0 THEN [cell |-> c, ret |-> Returned(Some(0))]
    ELSE IF ~is_empty(c) /\ c.item_id # Some(item_id)
    THEN [cell |-> c, ret |-> Returned(Some(0))]
    ELSE [cell |-> [c EXCEPT !.item_id = Some(item_id),
                             !.quantity = c.quantity + add_quantity],
          ret |-> Returned(Some(add_quantity))]

add_items_KeepsId(c, item_id, add_quantity) ==
    IF add_quantity <= 0 THEN [cell |-> c, ret |-> Returned(Some(0))]
    ELSE IF ~is_empty(c) /\ c.item_id # Some(item_id)
    THEN [cell |-> c, ret |-> Returned(Some(0))]
    ELSE LET actual_add == Min(add_quantity, c.max_stack_size - c.quantity)
         IN  [cell |-> [c EXCEPT !.quantity = c.quantity + actual_add],
              ret |-> Returned(Some(actual_add))]

add_items_NoKindCheck(c, item_id, add_quantity) ==
    IF add_quantity <= 0 THEN [cell |-> c, ret |-> Returned(Some(0))]
    ELSE LET actual_add == Min(add_quantity, c.max_stack_size - c.quantity)
         IN  [cell |-> [c EXCEPT !.item_id = Some(item_id),
                                  !.quantity = c.quantity + actual_add],
              ret |-> Returned(Some(actual_add))]

\* add_items(item_id, add_quantity): the fields are written through
\* model_copy(update=...), which does not validate
add_items(c, item_id, add_quantity) ==
    IF add_quantity <= 0 THEN [cell |-> c, ret |-> Returned(Some(0))]
    ELSE IF ~is_empty(c) /\ c.item_id # Some(item_id)
    THEN [cell |-> c, ret |-> Returned(Some(0))]
    ELSE LET available_space == c.max_stack_size - c.quantity
             actual_add == Min(add_quantity, available_space)
         IN  [cell |-> [c EXCEPT !.item_id = Some(item_id),
                                  !.quantity = c.quantity + actual_add],
              ret |-> Returned(Some(actual_add))]

remove_items_KeepsId(c, remove_quantity) ==
    IF remove_quantity <= 0 \/ is_empty(c) THEN [cell |-> c, ret |-> Returned(Some(0))]
    ELSE LET actual_remove == Min(remove_quantity, c.quantity)
         IN  [cell |-> [c EXCEPT !.quantity = c.quantity - actual_remove],
              ret |-> Returned(Some(actual_remove))]

\* remove_items(remove_quantity), written through model_copy(update=...) too
remove_items(c, remove_quantity) ==
    IF remove_quantity <= 0 \/ is_empty(c) THEN [cell |-> c, ret |-> Returned(Some(0))]
    ELSE LET actual_remove == Min(remove_quantity, c.quantity)
             new_quantity == c.quantity - actual_remove
         IN  [cell |-> [c EXCEPT !.quantity = new_quantity,
                                  !.item_id = IF new_quantity = 0 THEN None ELSE @],
              ret |-> Returned(Some(actual_remove))]

\* cell.quantity = v (validate_assignment=True): the constraint ge=0, the field
\* validator with every other field in validation_info.data, then the model
\* validator on the instance that already holds the new value
set_quantity(c, v) ==
    LET c1 == [c EXCEPT !.quantity =
                   validate_quantity(v, [k \in (DOMAIN c) \ {"quantity"} |-> c[k]])]
        checked == validate_item_id_and_quantity(c1)
    IN  IF v < 0 THEN [cell |-> c, ret |-> Raised("ValidationError: quantity")]
        ELSE IF checked.exc # "none" THEN [cell |-> checked.cell, ret |-> Raised(checked.exc)]
        ELSE [cell |-> checked.cell, ret |-> Returned(None)]

\* cell.item_id = v
set_item_id(c, v) ==
    LET checked == validate_item_id_and_quantity([c EXCEPT !.item_id = v])
    IN  IF checked.exc # "none" THEN [cell |-> checked.cell, ret |-> Raised(checked.exc)]
        ELSE [cell |-> checked.cell, ret |-> Returned(None)]

\* cell.max_stack_size = v: the constraint ge=1, then the model validator
set_max_stack_size(c, v) ==
    LET checked == validate_item_id_and_quantity([c EXCEPT !.max_stack_size = v])
    IN  IF v < 1 THEN [cell |-> c, ret |-> Raised("ValidationError: max_stack_size")]
        ELSE IF checked.exc # "none" THEN [cell |-> checked.cell, ret |-> Raised(checked.exc)]
        ELSE [cell |-> checked.cell, ret |-> Returned(None)]

\* clear_slot(): quantity = 0, then item_id = None; returns the old quantity
clear_slot(c) ==
    [cell |-> set_item_id(set_quantity(c, 0).cell, None).cell,
     ret |-> Returned(Some(c.quantity))]

\* InventoryCellComponent.model_dump(): every field with its value, in the
\* form the constructor takes (slot_type and is_equipped keep their defaults)
cell_model_dump(c) ==
    [item_id |-> c.item_id, quantity |-> Some(c.quantity),
     max_stack_size |-> Some(c.max_stack_size)]

(***************************************************************************)
(* InventoryComponent (components.py 702-875).  An inventory is a record   *)
(* [cells, max_cells, default_max_stack_size]; cells is a sequence of cell *)
(* records in list order.                                                  *)
(***************************************************************************)
\* @model_validator(mode="after"): more than max_cells cells keep the first ones
validate_cells_count_NoTruncate(i) == i

validate_cells_count(i) ==
    IF Len(i.cells) > i.max_cells
    THEN [i EXCEPT !.cells = SubSeq(i.cells, 1, i.max_cells)]
    ELSE i

\* InventoryComponent(cells=..., max_cells=..., default_max_stack_size=...)
\* with InventoryCellComponent instances, which pydantic takes as they are
InventoryComponent_init(cs, limit, default) ==
    validate_cells_count([cells |-> cs, max_cells |-> limit,
                          default_max_stack_size |-> default])

\* the guard of the loops: the cell is not empty and holds item_id
holds_item_AnyKind(c, item_id) == ~is_empty(c)

holds_item(c, item_id) == ~is_empty(c) /\ c.item_id = Some(item_id)

\* "for cell in self.cells: if cell.is_empty(): empty_cell = cell; break"
first_empty_cell(cs) ==
    IF \E i \in 1..Len(cs) : is_empty(cs[i])
    THEN Some(CHOOSE i \in 1..Len(cs) :
                  is_empty(cs[i]) /\ \A j \in 1..(i - 1) : ~is_empty(cs[j]))
    ELSE None

\* add_item, first loop, from cell k on: tops up the cells that hold item_id;
\* returned tells that the loop left the method with "return quantity"
RECURSIVE add_item_fill(_, _, _, _)
add_item_fill(cs, k, item_id, remaining_quantity) ==
    IF k > Len(cs)
    THEN [cells |-> cs, remaining |-> remaining_quantity, returned |-> FALSE]
    ELSE IF holds_item(cs[k], item_id)
    THEN LET out == add_items(cs[k], item_id, remaining_quantity)
             left == remaining_quantity - out.ret.val[1]
             cs1 == [cs EXCEPT ![k] = out.cell]
         IN  IF left <= 0
             THEN [cells |-> cs1, remaining |-> left, returned |-> TRUE]
             ELSE add_item_fill(cs1, k + 1, item_id, left)
    ELSE add_item_fill(cs, k + 1, item_id, remaining_quantity)

\* the new cell of add_item: InventoryCellComponent(max_stack_size=stack_size)
new_cell_DefaultOnly(i, max_stack_size) ==
    InventoryCellComponent_init(
        [item_id |-> None, quantity |-> None,
         max_stack_size |-> Some(i.default_max_stack_size)])

new_cell(i, max_stack_size) ==
    LET stack_size == IF max_stack_size # None THEN max_stack_size[1]
                      ELSE i.default_max_stack_size
    IN  InventoryCellComponent_init(
            [item_id |-> None, quantity |-> None, max_stack_size |-> Some(stack_size)])

\* add_item, the while loop: the first empty cell, or a new cell when there
\* is no empty one and the list is shorter than max_cells; exc names the
\* error of a cell construction that failed
add_item_overflow_OnePass(i, item_id, remaining_quantity, max_stack_size) ==
    LET e == first_empty_cell(i.cells)
    IN  IF remaining_quantity <= 0 \/ e = None
        THEN [inv |-> i, remaining |-> remaining_quantity, exc |-> "none"]
        ELSE LET out == add_items(i.cells[e[1]], item_id, remaining_quantity)
             IN  [inv |-> [i EXCEPT !.cells[e[1]] = out.cell],
                  remaining |-> remaining_quantity - out.ret.val[1], exc |-> "none"]

RECURSIVE add_item_overflow_NoLimit(_, _, _, _)
add_item_overflow_NoLimit(i, item_id, remaining_quantity, max_stack_size) ==
    IF remaining_quantity <= 0
    THEN [inv |-> i, remaining |-> remaining_quantity, exc |-> "none"]
    ELSE LET e == first_empty_cell(i.cells)
             made == new_cell(i, max_stack_size)
         IN  IF e # None
             THEN LET out == add_items(i.cells[e[1]], item_id, remaining_quantity)
                  IN  add_item_overflow_NoLimit([i EXCEPT !.cells[e[1]] = out.cell], item_id,
                                        remaining_quantity - out.ret.val[1], max_stack_size)
             ELSE IF made.cell = None
             THEN [inv |-> i, remaining |-> remaining_quantity, exc |-> made.ret.exc]
             ELSE LET out == add_items(made.cell[1], item_id, remaining_quantity)
                  IN  [inv |-> [i EXCEPT !.cells = Append(i.cells, out.cell)],
                       remaining |-> remaining_quantity - out.ret.val[1], exc |-> "none"]

RECURSIVE add_item_overflow(_, _, _, _)
add_item_overflow(i, item_id, remaining_quantity, max_stack_size) ==
    IF remaining_quantity <= 0
    THEN [inv |-> i, remaining |-> remaining_quantity, exc |-> "none"]
    ELSE LET e == first_empty_cell(i.cells)
             made == new_cell(i, max_stack_size)
         IN  IF e # None
             THEN LET out == add_items(i.cells[e[1]], item_id, remaining_quantity)
                  IN  add_item_overflow([i EXCEPT !.cells[e[1]] = out.cell], item_id,
                                        remaining_quantity - out.ret.val[1], max_stack_size)
             ELSE IF Len(i.cells) < i.max_cells
             THEN IF made.cell = None
                  THEN [inv |-> i, remaining |-> remaining_quantity, exc |-> made.ret.exc]
                  ELSE LET out == add_items(made.cell[1], item_id, remaining_quantity)
                       IN  add_item_overflow([i EXCEPT !.cells = Append(i.cells, out.cell)],
                                             item_id, remaining_quantity - out.ret.val[1],
                                             max_stack_size)
             ELSE [inv |-> i, remaining |-> remaining_quantity, exc |-> "none"]

\* InventoryComponent.add_item(item_id, quantity, max_stack_size)
add_item_NoFill(i, item_id, quantity, max_stack_size) ==
    IF quantity <= 0 THEN [inv |-> i, ret |-> Returned(Some(0))]
    ELSE LET over == add_item_overflow(i, item_id, quantity, max_stack_size)
         IN  IF over.exc # "none" THEN [inv |-> over.inv, ret |-> Raised(over.exc)]
             ELSE [inv |-> over.inv, ret |-> Returned(Some(quantity - over.remaining))]

add_item_ReturnsRequested(i, item_id, quantity, max_stack_size) ==
    IF quantity <= 0 THEN [inv |-> i, ret |-> Returned(Some(0))]
    ELSE LET fill == add_item_fill(i.cells, 1, item_id, quantity)
             over == add_item_overflow([i EXCEPT !.cells = fill.cells], item_id,
                                       fill.remaining, max_stack_size)
         IN  IF over.exc # "none" THEN [inv |-> over.inv, ret |-> Raised(over.exc)]
             ELSE [inv |-> over.inv, ret |-> Returned(Some(quantity))]

add_item(i, item_id, quantity, max_stack_size) ==
    IF quantity <= 0 THEN [inv |-> i, ret |-> Returned(Some(0))]
    ELSE LET fill == add_item_fill(i.cells, 1, item_id, quantity)
             over == add_item_overflow([i EXCEPT !.cells = fill.cells], item_id,
                                       fill.remaining, max_stack_size)
         IN  IF fill.returned
             THEN [inv |-> [i EXCEPT !.cells = fill.cells], ret |-> Returned(Some(quantity))]
             ELSE IF over.exc # "none" THEN [inv |-> over.inv, ret |-> Raised(over.exc)]
             ELSE [inv |-> over.inv, ret |-> Returned(Some(quantity - over.remaining))]

\* add_item, one pass through the body of the while loop (remaining_quantity
\* > 0): stop tells that the loop was left, by break or by the error exc
add_item_overflow_step_NoBreak(i, item_id, remaining_quantity, max_stack_size) ==
    LET e == first_empty_cell(i.cells)
    IN  IF e # None
        THEN LET out == add_items(i.cells[e[1]], item_id, remaining_quantity)
             IN  [inv |-> [i EXCEPT !.cells[e[1]] = out.cell],
                  remaining |-> remaining_quantity - out.ret.val[1],
                  exc |-> "none", stop |-> FALSE]
        ELSE [inv |-> i, remaining |-> remaining_quantity, exc |-> "none", stop |-> FALSE]

add_item_overflow_step(i, item_id, remaining_quantity, max_stack_size) ==
    LET e == first_empty_cell(i.cells)
        made == new_cell(i, max_stack_size)
    IN  IF e # None
        THEN LET out == add_items(i.cells[e[1]], item_id, remaining_quantity)
             IN  [inv |-> [i EXCEPT !.cells[e[1]] = out.cell],
                  remaining |-> remaining_quantity - out.ret.val[1],
                  exc |-> "none", stop |-> FALSE]
        ELSE IF Len(i.cells) < i.max_cells
        THEN IF made.cell = None
             THEN [inv |-> i, remaining |-> remaining_quantity,
                   exc |-> made.ret.exc, stop |-> TRUE]
             ELSE LET out == add_items(made.cell[1], item_id, remaining_quantity)
                  IN  [inv |-> [i EXCEPT !.cells = Append(i.cells, out.cell)],
                       remaining |-> remaining_quantity - out.ret.val[1],
                       exc |-> "none", stop |-> FALSE]
        ELSE [inv |-> i, remaining |-> remaining_quantity, exc |-> "none", stop |-> TRUE]

\* InventoryComponent.remove_item, the loop from cell k on
RECURSIVE remove_item_loop_SkipsFirst(_, _, _, _)
remove_item_loop_SkipsFirst(cs, k, item_id, remaining_to_remove) ==
    IF k > Len(cs) THEN [cells |-> cs, remaining |-> remaining_to_remove]
    ELSE IF holds_item(cs[k], item_id)
            /\ \A j \in (k + 1)..Len(cs) : ~holds_item(cs[j], item_id)
    THEN LET out == remove_items(cs[k], remaining_to_remove)
         IN  [cells |-> [cs EXCEPT ![k] = out.cell],
              remaining |-> remaining_to_remove - out.ret.val[1]]
    ELSE remove_item_loop_SkipsFirst(cs, k + 1, item_id, remaining_to_remove)

RECURSIVE remove_item_loop(_, _, _, _)
remove_item_loop(cs, k, item_id, remaining_to_remove) ==
    IF k > Len(cs) THEN [cells |-> cs, remaining |-> remaining_to_remove]
    ELSE IF holds_item(cs[k], item_id)
    THEN LET out == remove_items(cs[k], remaining_to_remove)
             left == remaining_to_remove - out.ret.val[1]
             cs1 == [cs EXCEPT ![k] = out.cell]
         IN  IF left <= 0 THEN [cells |-> cs1, remaining |-> 0]
             ELSE remove_item_loop(cs1, k + 1, item_id, left)
    ELSE remove_item_loop(cs, k + 1, item_id, remaining_to_remove)

\* InventoryComponent.remove_item(item_id, quantity)
remove_item_DropsEmptied(i, item_id, quantity) ==
    IF quantity <= 0 THEN [inv |-> i, ret |-> Returned(Some(0))]
    ELSE LET out == remove_item_loop(i.cells, 1, item_id, quantity)
         IN  [inv |-> [i EXCEPT !.cells = SelectSeq(out.cells, LAMBDA c : ~is_empty(c))],
              ret |-> Returned(Some(quantity - out.remaining))]

remove_item(i, item_id, quantity) ==
    IF quantity <= 0 THEN [inv |-> i, ret |-> Returned(Some(0))]
    ELSE LET out == remove_item_loop(i.cells, 1, item_id, quantity)
         IN  [inv |-> [i EXCEPT !.cells = out.cells],
              ret |-> Returned(Some(quantity - out.remaining))]

\* InventoryComponent.has_item, the loop from cell k on with its running total
RECURSIVE has_item_loop_Strict(_, _, _, _, _)
has_item_loop_Strict(cs, k, item_id, quantity, total_quantity) ==
    IF k > Len(cs) THEN FALSE
    ELSE IF holds_item(cs[k], item_id)
    THEN IF total_quantity + cs[k].quantity > quantity THEN TRUE
         ELSE has_item_loop_Strict(cs, k + 1, item_id, quantity,
                                   total_quantity + cs[k].quantity)
    ELSE has_item_loop_Strict(cs, k + 1, item_id, quantity, total_quantity)

RECURSIVE has_item_loop(_, _, _, _, _)
has_item_loop(cs, k, item_id, quantity, total_quantity) ==
    IF k > Len(cs) THEN FALSE
    ELSE IF holds_item(cs[k], item_id)
    THEN IF total_quantity + cs[k].quantity >= quantity THEN TRUE
         ELSE has_item_loop(cs, k + 1, item_id, quantity, total_quantity + cs[k].quantity)
    ELSE has_item_loop(cs, k + 1, item_id, quantity, total_quantity)

\* InventoryComponent.has_item(item_id, quantity)
has_item(i, item_id, quantity) ==
    IF quantity <= 0 THEN TRUE ELSE has_item_loop(i.cells, 1, item_id, quantity, 0)

\* InventoryComponent.get_item_count, the loop from cell k on
RECURSIVE get_item_count_loop(_, _, _)
get_item_count_loop(cs, k, item_id) ==
    IF k > Len(cs) THEN 0
    ELSE (IF holds_item(cs[k], item_id) THEN cs[k].quantity ELSE 0)
         + get_item_count_loop(cs, k + 1, item_id)

\* InventoryComponent.get_item_count(item_id)
get_item_count(i, item_id) == get_item_count_loop(i.cells, 1, item_id)

\* InventoryComponent.get_empty_cells_count()
get_empty_cells_count(i) == Cardinality({k \in 1..Len(i.cells) : is_empty(i.cells[k])})

\* InventoryComponent.is_full()
inventory_is_full_AnyLength(i) == \A k \in 1..Len(i.cells) : is_full(i.cells[k])

inventory_is_full(i) ==
    IF Len(i.cells) < i.max_cells THEN FALSE
    ELSE \A k \in 1..Len(i.cells) : is_full(i.cells[k])

\* InventoryComponent.clear_all(): clear_slot on every cell
clear_all_DropsCells(i) == [i EXCEPT !.cells = <<>>]

clear_all(i) == [i EXCEPT !.cells = [k \in 1..Len(i.cells) |-> clear_slot(i.cells[k]).cell]]

(***************************************************************************)
(* SpecStat: one StatComponent, constructed from any data, then driven by  *)
(* its methods and by direct assignment to its fields.                     *)
(***************************************************************************)
StatData ==
    [name : {"hp"}, base_value : Opt(Values), current_value : Opt(Values),
     min_value : Opt(Values), max_value : Opt(Values), description : {""}]

\* InventoryCellComponent(): the cell of the specifications that have none
NoCell ==
    /\ cell = InventoryCellComponent_init(
                  [item_id |-> None, quantity |-> None, max_stack_size |-> None]).cell[1]
    /\ cell_old = cell

\* no add_item is inside its while loop
NoCallInProgress ==
    /\ pc = "done"
    /\ remaining = 0

\* InventoryComponent(max_cells=1): the inventory of the specifications that have none
NoInventory ==
    /\ inv = InventoryComponent_init(<<>>, 1, 1)
    /\ inv_old = inv
    /\ NoCallInProgress

\* the collection is not part of SpecStat
NoCollection ==
    /\ stats = <<>>
    /\ stats_old = <<>>
    /\ max_stats = None

InitStat ==
    /\ \E data \in StatData :
          /\ stat = StatComponent_init(data)
          /\ args = <<data>>
    /\ stat_old = stat
    /\ op = "__init__"
    /\ ret = Returned(None)
    /\ resets = 0
    /\ NoCollection
    /\ NoCell
    /\ NoInventory

\* every call of SpecStat: the instance before it is kept, the collection untouched
StatCall(name, a, r, n) ==
    /\ stat_old' = stat
    /\ op' = name
    /\ args' = a
    /\ ret' = r
    /\ resets' = n
    /\ stat'.current_value \in Values
    /\ stat'.base_value \in Values
    /\ UNCHANGED <<stats, stats_old, max_stats, cell, cell_old, inv, inv_old, pc, remaining>>

ModifyValue ==
    \E modifier \in Values :
        /\ stat' = modify_value(stat, modifier)
        /\ StatCall("modify_value", <<modifier>>, Returned(Some(stat'.current_value)), 0)

ResetToBase ==
    /\ stat' = reset_to_base(stat)
    /\ StatCall("reset_to_base", <<>>, Returned(None), IF resets < 2 THEN resets + 1 ELSE 2)

SetBaseValue ==
    \E new_value \in Values :
        /\ stat' = set_base_value(stat, new_value)
        /\ StatCall("set_base_value", <<new_value>>, Returned(Some(stat'.base_value)), 0)

AssignCurrentValue ==
    \E v \in Values :
        /\ stat' = set_current_value(stat, v)
        /\ StatCall("current_value=", <<v>>, Returned(None), 0)

AssignBaseValue ==
    \E v \in Values :
        /\ stat' = set_base_value_field(stat, v)
        /\ StatCall("base_value=", <<v>>, Returned(None), 0)

AssignMinValue ==
    \E v \in Opt(Values) :
        /\ stat' = set_min_value(stat, v)
        /\ StatCall("min_value=", <<v>>, Returned(None), 0)

AssignMaxValue ==
    \E v \in Opt(Values) :
        /\ stat' = set_max_value(stat, v)
        /\ StatCall("max_value=", <<v>>, Returned(None), 0)

NextStat ==
    \/ ModifyValue
    \/ ResetToBase
    \/ SetBaseValue
    \/ AssignCurrentValue
    \/ AssignBaseValue
    \/ AssignMinValue
    \/ AssignMaxValue

SpecStat == InitStat /\ [][NextStat]_vars

(***************************************************************************)
(* Claims about StatComponent, checked under SpecStat.                     *)
(***************************************************************************)
\* lo <= hi whenever both bounds are set
BoundsOrdered(s) ==
    s.min_value # None /\ s.max_value # None => s.min_value[1] <= s.max_value[1]

\* each bound that is set is respected by v
WithinBounds(v, lo, hi) ==
    /\ lo # None => lo[1] <= v
    /\ hi # None => v <= hi[1]

\* v clamped into the interval [lo, hi] (lo <= hi when both are set): raised
\* to lo, else lowered to hi, else v itself
ClampInto(v, lo, hi) ==
    IF lo # None /\ v < lo[1] THEN lo[1]
    ELSE IF hi # None /\ v > hi[1] THEN hi[1]
    ELSE v

\* C1: a freshly constructed stat with min_value <= max_value has base_value
\* and current_value within the bounds that are set.
C1_ConstructionClamps ==
    (op = "__init__" /\ BoundsOrdered(stat)) =>
        /\ WithinBounds(stat.base_value, stat.min_value, stat.max_value)
        /\ WithinBounds(stat.current_value, stat.min_value, stat.max_value)

\* C2: constructed with a base_value and without a current_value, the stat's
\* current_value equals its stored base_value.
C2_CurrentDefaultsToBase ==
    (op = "__init__" /\ args[1].base_value # None /\ args[1].current_value = None) =>
        stat.current_value = stat.base_value

C2_Witness ==
    /\ op = "__init__"
    /\ args[1].base_value = Some(MaxVal)
    /\ args[1].current_value = None
    /\ stat.current_value = MaxVal

\* C3: modify_value(delta) stores old current_value + delta clamped into
\* [min_value, max_value], returns the stored value and leaves base_value,
\* min_value and max_value alone.
C3_ModifyClampsAndReturns ==
    op = "modify_value" =>
        /\ BoundsOrdered(stat_old) =>
               stat.current_value =
                   ClampInto(stat_old.current_value + args[1],
                             stat_old.min_value, stat_old.max_value)
        /\ ret = Returned(Some(stat.current_value))
        /\ stat.base_value = stat_old.base_value
        /\ stat.min_value = stat_old.min_value
        /\ stat.max_value = stat_old.max_value

\* a modify_value whose sum fell below min_value and was raised to it
C3_Witness ==
    /\ op = "modify_value"
    /\ args[1] < 0
    /\ stat_old.min_value # None
    /\ BoundsOrdered(stat_old)
    /\ stat_old.current_value + args[1] < stat_old.min_value[1]
    /\ stat.current_value = stat_old.min_value[1]
    /\ stat.base_value > stat.current_value

\* C4: set_base_value(value) stores value clamped into [min_value, max_value]
\* in base_value and in current_value and returns it.
C4_SetBaseSetsBoth ==
    op = "set_base_value" =>
        /\ BoundsOrdered(stat_old) =>
               stat.base_value = ClampInto(args[1], stat_old.min_value, stat_old.max_value)
        /\ stat.current_value = stat.base_value
        /\ ret = Returned(Some(stat.base_value))

\* a set_base_value that was clamped, on a stat whose current_value had drifted
C4_Witness ==
    /\ op = "set_base_value"
    /\ stat_old.max_value # None
    /\ BoundsOrdered(stat_old)
    /\ args[1] > stat_old.max_value[1]
    /\ stat_old.current_value # stat_old.base_value
    /\ stat.base_value = stat_old.max_value[1]
    /\ stat.current_value = stat_old.max_value[1]

\* C5: after reset_to_base() current_value equals base_value, and base_value
\* is the one from before the call.
C5_ResetRestoresBase ==
    op = "reset_to_base" =>
        /\ stat.current_value = stat.base_value
        /\ stat.base_value = stat_old.base_value

\* C6: reset_to_base() called right after reset_to_base() changes nothing.
C6_ResetIdempotent ==
    (op = "reset_to_base" /\ resets >= 2) => stat = stat_old

\* a second reset in a row, on a stat whose base_value is not the default
C6_Witness ==
    /\ op = "reset_to_base"
    /\ resets >= 2
    /\ stat.current_value = stat.base_value
    /\ stat.base_value # 0

\* C7: assigning current_value or base_value never fails, stores the value
\* clamped into the bounds (min_value when below it, max_value when above it)
\* and leaves the other of the two fields alone.
C7_AssignmentClamps ==
    /\ op = "current_value=" =>
          /\ ret.exc = "none"
          /\ BoundsOrdered(stat_old) =>
                stat.current_value =
                    ClampInto(args[1], stat_old.min_value, stat_old.max_value)
          /\ stat.base_value = stat_old.base_value
    /\ op = "base_value=" =>
          /\ ret.exc = "none"
          /\ BoundsOrdered(stat_old) =>
                stat.base_value =
                    ClampInto(args[1], stat_old.min_value, stat_old.max_value)
          /\ stat.current_value = stat_old.current_value

\* an assignment above max_value that was stored as max_value
C7_Witness ==
    /\ op = "current_value="
    /\ stat_old.max_value # None
    /\ BoundsOrdered(stat_old)
    /\ args[1] > stat_old.max_value[1]
    /\ stat.current_value = stat_old.max_value[1]
    /\ stat.base_value # stat.current_value

(***************************************************************************)
(* SpecStats: a StatsComponent constructed from a list of stats, with or   *)
(* without a max_stats, then driven by its methods and by assignment to    *)
(* max_stats.                                                              *)
(***************************************************************************)
Modifiers == {0 - 1, 1}

\* the single stat is not part of SpecStats
NoStat ==
    /\ stat = StatComponent_init([name |-> "hp", base_value |-> None,
                                  current_value |-> None, min_value |-> None,
                                  max_value |-> None, description |-> ""])
    /\ stat_old = stat
    /\ resets = 0

\* no two stats share a name
NamesUnique(sts) ==
    \A i, j \in 1..Len(sts) : i # j => sts[i].name # sts[j].name

\* the stats a collection is constructed from: StatComponent instances
StatRecords ==
    [name : StatNames, base_value : CollValues, current_value : CollValues,
     min_value : {None}, max_value : {None}, description : {""}]

\* the lists handed to the constructor: any order, any length, distinct names
StatLists ==
    {sts \in UNION {[1..n -> StatRecords] : n \in 0..Cardinality(StatNames)} :
        NamesUnique(sts)}

\* StatsComponent(stats=..., max_stats=...)
InitStats ==
    /\ \E sts \in StatLists, limit \in Opt(1..MaxStatsBound) :
          /\ stats = StatsComponent_init(sts, limit)
          /\ max_stats = limit
          /\ args = <<sts, limit>>
    /\ stats_old = stats
    /\ op = "__init__"
    /\ ret = Returned(None)
    /\ NoStat
    /\ NoCell
    /\ NoInventory

\* every call of SpecStats: the list before it is kept, the values stay in range
StatsFrame(name, a) ==
    /\ stats_old' = stats
    /\ op' = name
    /\ args' = a
    /\ \A i \in 1..Len(stats') :
          /\ stats'[i].current_value \in CollValues
          /\ stats'[i].base_value \in CollValues
    /\ UNCHANGED <<stat, stat_old, resets, cell, cell_old, inv, inv_old, pc, remaining>>

\* a call of a method: max_stats stays
StatsCall(name, a) ==
    /\ StatsFrame(name, a)
    /\ UNCHANGED max_stats

AssignMaxStats ==
    \E v \in Opt(0..MaxStatsBound) :
        LET out == set_max_stats(stats, max_stats, v)
        IN  /\ stats' = out.stats
            /\ max_stats' = out.max_stats
            /\ ret' = out.ret
            /\ StatsFrame("max_stats=", <<v>>)

AddStat ==
    \E name \in StatNames, base_value \in CollValues,
       current_value \in {None, Some(0)}, replace_if_exists \in BOOLEAN :
        LET out == add_stat(stats, max_stats, name, base_value, current_value,
                            None, None, "", replace_if_exists)
        IN  /\ stats' = out.stats
            /\ ret' = out.ret
            /\ StatsCall("add_stat",
                         <<name, base_value, current_value, None, None, "",
                           replace_if_exists>>)

RemoveStat ==
    \E name \in StatNames :
        LET out == remove_stat(stats, name)
        IN  /\ stats' = out.stats
            /\ ret' = out.ret
            /\ StatsCall("remove_stat", <<name>>)

ModifyStat ==
    \E name \in StatNames, modifier \in Modifiers :
        LET out == modify_stat(stats, name, modifier)
        IN  /\ stats' = out.stats
            /\ ret' = out.ret
            /\ StatsCall("modify_stat", <<name, modifier>>)

SetStatBaseValue ==
    \E name \in StatNames, new_value \in CollValues :
        LET out == set_stat_base_value(stats, name, new_value)
        IN  /\ stats' = out.stats
            /\ ret' = out.ret
            /\ StatsCall("set_stat_base_value", <<name, new_value>>)

SetStatCurrentValue ==
    \E name \in StatNames, new_value \in CollValues :
        LET out == set_stat_current_value(stats, name, new_value)
        IN  /\ stats' = out.stats
            /\ ret' = out.ret
            /\ StatsCall("set_stat_current_value", <<name, new_value>>)

ResetStatToBase ==
    \E name \in StatNames :
        LET out == reset_stat_to_base(stats, name)
        IN  /\ stats' = out.stats
            /\ ret' = out.ret
            /\ StatsCall("reset_stat_to_base", <<name>>)

ResetAllToBase ==
    LET out == reset_all_to_base(stats)
    IN  /\ stats' = out.stats
        /\ ret' = out.ret
        /\ StatsCall("reset_all_to_base", <<>>)

ClearAllStats ==
    LET out == clear_all_stats(stats)
    IN  /\ stats' = out.stats
        /\ ret' = out.ret
        /\ StatsCall("clear_all_stats", <<>>)

NextStats ==
    \/ AddStat
    \/ RemoveStat
    \/ ModifyStat
    \/ SetStatBaseValue
    \/ SetStatCurrentValue
    \/ ResetStatToBase
    \/ ResetAllToBase
    \/ ClearAllStats
    \/ AssignMaxStats

SpecStats == InitStats /\ [][NextStats]_vars

(***************************************************************************)
(* Claims about StatsComponent, checked under SpecStats.                   *)
(***************************************************************************)
\* C8: add_stat of a name the collection holds, with replace_if_exists false,
\* raises the already-exists error and leaves the list as it was.
C8_DuplicateNameRejected ==
    (op = "add_stat" /\ has_stat(stats_old, args[1]) /\ ~args[7]) =>
        /\ ret = Raised("ValueError: already exists")
        /\ stats = stats_old

\* a rejected duplicate whose values differ from the stat already held
C8_Witness ==
    /\ op = "add_stat"
    /\ ~args[7]
    /\ Len(stats_old) = 2
    /\ has_stat(stats_old, args[1])
    /\ get_stat(stats_old, args[1])[1].base_value # args[2]
    /\ ret.exc = "ValueError: already exists"

\* C9: add_stat of a new name to a collection that holds max_stats stats
\* raises the maximum-reached error and leaves the list as it was.
C9_CapacityRejected ==
    (/\ op = "add_stat"
     /\ ~has_stat(stats_old, args[1])
     /\ max_stats # None
     /\ Len(stats_old) = max_stats[1]) =>
        /\ ret = Raised("ValueError: maximum number of stats reached")
        /\ stats = stats_old
        /\ Len(stats) = max_stats[1]

\* max_stats = 2, two stats held, a third name refused
C9_Witness ==
    /\ op = "add_stat"
    /\ max_stats = Some(2)
    /\ Len(stats_old) = 2
    /\ ~has_stat(stats_old, args[1])
    /\ ret.exc = "ValueError: maximum number of stats reached"
    /\ Len(stats) = 2

\* C10: no two stats of the collection share a name, in every state reached
\* from the empty collection.
C10_NamesUnique == NamesUnique(stats)

\* a full collection whose latest call replaced a stat already held
C10_Witness ==
    /\ op = "add_stat"
    /\ args[7]
    /\ has_stat(stats_old, args[1])
    /\ Len(stats) = Cardinality(StatNames)
    /\ ret.exc = "none"

\* C11: whenever max_stats is set, the collection holds at most max_stats stats.
C11_CountWithinMaxStats ==
    max_stats # None => Len(stats) <= max_stats[1]

\* an add_stat that filled the collection up to its max_stats
C11_Witness ==
    /\ op = "add_stat"
    /\ ret.exc = "none"
    /\ max_stats = Some(MaxStatsBound)
    /\ Len(stats_old) = MaxStatsBound - 1
    /\ Len(stats) = MaxStatsBound

\* C12: a collection constructed with more than max_stats stats, or whose
\* max_stats is assigned a value below its length, keeps exactly its first
\* max_stats entries in their order, and no error is raised.
C12_TruncatesToFirst ==
    /\ (op = "__init__" /\ args[2] # None /\ Len(args[1]) > args[2][1]) =>
          /\ ret.exc = "none"
          /\ Len(stats) = args[2][1]
          /\ \A i \in 1..Len(stats) : stats[i] = args[1][i]
    /\ (op = "max_stats=" /\ args[1] # None /\ args[1][1] >= 1
            /\ Len(stats_old) > args[1][1]) =>
          /\ ret.exc = "none"
          /\ max_stats = args[1]
          /\ Len(stats) = args[1][1]
          /\ \A i \in 1..Len(stats) : stats[i] = stats_old[i]

\* max_stats lowered to 1 on a collection of three stats
C12_Witness ==
    /\ op = "max_stats="
    /\ args[1] = Some(1)
    /\ Len(stats_old) = 3
    /\ stats = <<stats_old[1]>>

\* C13: add_stat with replace_if_exists on a name the collection holds
\* succeeds, also at max_stats; the length stays, get_stat(name) is the new
\* stat with the supplied values, and it is the only stat of that name.
C13_ReplaceExisting ==
    (op = "add_stat" /\ has_stat(stats_old, args[1]) /\ args[7]) =>
        /\ ret.exc = "none"
        /\ Len(stats) = Len(stats_old)
        /\ has_stat(stats, args[1])
        /\ ret.val = get_stat(stats, args[1])
        /\ get_stat(stats, args[1])[1].base_value = args[2]
        /\ get_stat(stats, args[1])[1].current_value =
               (IF args[3] = None THEN args[2] ELSE args[3][1])
        /\ Cardinality({i \in 1..Len(stats) : stats[i].name = args[1]}) = 1

\* a replacement at max_stats whose base_value differs from the old one
C13_Witness ==
    /\ op = "add_stat"
    /\ args[7]
    /\ max_stats = Some(2)
    /\ Len(stats_old) = 2
    /\ has_stat(stats_old, args[1])
    /\ get_stat(stats_old, args[1])[1].base_value # args[2]
    /\ ret.exc = "none"

\* C14: modify_stat, set_stat_base_value and set_stat_current_value of a name
\* the collection does not hold return None, reset_stat_to_base returns False;
\* none raises and none changes the collection.
C14_AbsentNameNotFound ==
    /\ (/\ op \in {"modify_stat", "set_stat_base_value", "set_stat_current_value"}
        /\ ~has_stat(stats_old, args[1])) =>
          /\ ret = Returned(None)
          /\ stats = stats_old
    /\ (op = "reset_stat_to_base" /\ ~has_stat(stats_old, args[1])) =>
          /\ ret = Returned(Some(FALSE))
          /\ stats = stats_old

\* modify_stat of an absent name on a collection of two stats that could change
C14_Witness ==
    /\ op = "modify_stat"
    /\ Len(stats_old) = 2
    /\ ~has_stat(stats_old, args[1])
    /\ stats_old[1].current_value + args[2] \in CollValues
    /\ ret = Returned(None)

\* C15: remove_stat(name) of a held name returns True and deletes exactly that
\* stat, the others keeping their values and order; of an absent name it
\* returns False and changes nothing.
C15_RemoveExactlyNamed ==
    op = "remove_stat" =>
        IF has_stat(stats_old, args[1])
        THEN /\ ret = Returned(Some(TRUE))
             /\ Len(stats) = Len(stats_old) - 1
             /\ \E i \in 1..Len(stats_old) :
                   /\ stats_old[i].name = args[1]
                   /\ \A j \in 1..Len(stats) :
                         stats[j] = (IF j < i THEN stats_old[j] ELSE stats_old[j + 1])
        ELSE /\ ret = Returned(Some(FALSE))
             /\ stats = stats_old

\* the middle one of three stats removed
C15_Witness ==
    /\ op = "remove_stat"
    /\ Len(stats_old) = 3
    /\ stats_old[2].name = args[1]
    /\ stats = <<stats_old[1], stats_old[3]>>
    /\ ret = Returned(Some(TRUE))

(***************************************************************************)
(* SpecCell: an InventoryCellComponent created empty with any              *)
(* max_stack_size, then driven by add_items, remove_items and clear_slot.  *)
(***************************************************************************)
Amounts == (0 - 1)..(MaxStack + 1)

CellData ==
    [item_id : Opt(Items), quantity : Opt(0..MaxStack), max_stack_size : Opt(1..MaxStack)]

\* every call on the cell: the instance before it is kept, the rest untouched
CellCall(name, a) ==
    /\ cell_old' = cell
    /\ op' = name
    /\ args' = a
    /\ UNCHANGED <<stat, stat_old, stats, stats_old, max_stats, resets, inv, inv_old, pc, remaining>>

InitCell ==
    /\ \E m \in 1..MaxStack :
          LET data == [item_id |-> None, quantity |-> None, max_stack_size |-> Some(m)]
          IN  /\ cell = InventoryCellComponent_init(data).cell[1]
              /\ args = <<data>>
    /\ cell_old = cell
    /\ op = "__init__"
    /\ ret = Returned(None)
    /\ NoStat
    /\ NoCollection
    /\ NoInventory

AddItems ==
    \E item_id \in Items, add_quantity \in Amounts :
        LET out == add_items(cell, item_id, add_quantity)
        IN  /\ cell' = out.cell
            /\ ret' = out.ret
            /\ CellCall("add_items", <<item_id, add_quantity>>)

RemoveItems ==
    \E remove_quantity \in Amounts :
        LET out == remove_items(cell, remove_quantity)
        IN  /\ cell' = out.cell
            /\ ret' = out.ret
            /\ CellCall("remove_items", <<remove_quantity>>)

ClearSlot ==
    LET out == clear_slot(cell)
    IN  /\ cell' = out.cell
        /\ ret' = out.ret
        /\ CellCall("clear_slot", <<>>)

NextCell ==
    \/ AddItems
    \/ RemoveItems
    \/ ClearSlot

SpecCell == InitCell /\ [][NextCell]_vars

(***************************************************************************)
(* SpecCellAssign: a cell that is also constructed from any data and       *)
(* assigned to field by field.  A construction that raises produces no     *)
(* cell: the variable keeps the cell it had.  An assignment that raises in *)
(* the model validator leaves the instance either as it was or holding the *)
(* assigned value (the validator runs on the instance after the write).    *)
(***************************************************************************)
InitCellAssign ==
    /\ NoCell
    /\ op = "__init__"
    /\ args = <<[item_id |-> None, quantity |-> None, max_stack_size |-> None]>>
    /\ ret = Returned(None)
    /\ NoStat
    /\ NoCollection
    /\ NoInventory

ConstructCell ==
    \E data \in CellData :
        LET out == InventoryCellComponent_init(data)
        IN  /\ cell' = IF out.cell = None THEN cell ELSE out.cell[1]
            /\ ret' = out.ret
            /\ CellCall("InventoryCellComponent", <<data>>)

\* the instance after an assignment: on an error, untouched or already written
AfterAssign(out) == IF out.ret.exc = "none" THEN {out.cell} ELSE {cell, out.cell}

AssignQuantity ==
    \E v \in Amounts :
        LET out == set_quantity(cell, v)
        IN  /\ cell' \in AfterAssign(out)
            /\ ret' = out.ret
            /\ CellCall("quantity=", <<v>>)

AssignItemId ==
    \E v \in Opt(Items) :
        LET out == set_item_id(cell, v)
        IN  /\ cell' \in AfterAssign(out)
            /\ ret' = out.ret
            /\ CellCall("item_id=", <<v>>)

AssignMaxStackSize ==
    \E v \in 0..MaxStack :
        LET out == set_max_stack_size(cell, v)
        IN  /\ cell' \in AfterAssign(out)
            /\ ret' = out.ret
            /\ CellCall("max_stack_size=", <<v>>)

NextCellAssign ==
    \/ ConstructCell
    \/ AssignQuantity
    \/ AssignItemId
    \/ AssignMaxStackSize
    \/ AddItems
    \/ RemoveItems
    \/ ClearSlot

SpecCellAssign == InitCellAssign /\ [][NextCellAssign]_vars

(***************************************************************************)
(* Claims about InventoryCellComponent.                                    *)
(***************************************************************************)
\* C16: a cell created empty keeps 0 <= quantity <= max_stack_size, and
\* quantity = 0 exactly when item_id is None, after every add_items,
\* remove_items and clear_slot.
C16_CellInvariant ==
    /\ 0 <= cell.quantity
    /\ cell.quantity <= cell.max_stack_size
    /\ cell.quantity = 0 <=> cell.item_id = None

\* an add_items that asked for more than the cell could take
C16_Witness ==
    /\ op = "add_items"
    /\ cell_old.quantity > 0
    /\ args[2] > cell_old.max_stack_size - cell_old.quantity
    /\ ret.val[1] > 0
    /\ cell.quantity = cell.max_stack_size

\* C17: add_items(item_id, amount) with amount > 0, on a cell that is empty or
\* holds item_id, adds min(amount, max_stack_size - quantity), returns that
\* number and leaves the cell holding item_id; with amount <= 0 it returns 0
\* and changes nothing.
C17_AddItemsAddsWhatFits ==
    op = "add_items" =>
        /\ (args[2] > 0 /\ (is_empty(cell_old) \/ cell_old.item_id = Some(args[1]))) =>
              LET fits == IF args[2] < cell_old.max_stack_size - cell_old.quantity
                          THEN args[2]
                          ELSE cell_old.max_stack_size - cell_old.quantity
              IN  /\ cell.quantity = cell_old.quantity + fits
                  /\ ret = Returned(Some(fits))
                  /\ cell.item_id = Some(args[1])
                  /\ cell.max_stack_size = cell_old.max_stack_size
        /\ args[2] <= 0 =>
              /\ ret = Returned(Some(0))
              /\ cell = cell_old

\* an add_items into an empty cell that took only a part of the amount
C17_Witness ==
    /\ op = "add_items"
    /\ is_empty(cell_old)
    /\ args[2] > cell_old.max_stack_size
    /\ cell_old.max_stack_size > 1
    /\ ret = Returned(Some(cell_old.max_stack_size))
    /\ cell.item_id = Some(args[1])

\* C18: add_items of another item kind into a cell that is not empty returns 0
\* and leaves item_id and quantity as they were, free space or not.
C18_OtherKindRefused ==
    (op = "add_items" /\ ~is_empty(cell_old) /\ cell_old.item_id # Some(args[1])) =>
        /\ ret = Returned(Some(0))
        /\ cell = cell_old

\* another kind offered to a cell that has free space
C18_Witness ==
    /\ op = "add_items"
    /\ args[2] > 0
    /\ cell_old.quantity > 0
    /\ cell_old.quantity < cell_old.max_stack_size
    /\ cell_old.item_id # Some(args[1])
    /\ ret = Returned(Some(0))

\* C19: remove_items(amount) with amount > 0 on a cell that is not empty
\* removes min(amount, quantity) and returns it; item_id becomes None exactly
\* when the quantity reaches 0; with amount <= 0 or on an empty cell it
\* returns 0 and changes nothing.
C19_RemoveItemsTakesWhatIsThere ==
    op = "remove_items" =>
        IF args[1] > 0 /\ ~is_empty(cell_old)
        THEN LET taken == IF args[1] < cell_old.quantity THEN args[1]
                          ELSE cell_old.quantity
             IN  /\ cell.quantity = cell_old.quantity - taken
                 /\ ret = Returned(Some(taken))
                 /\ cell.item_id = (IF cell.quantity = 0 THEN None ELSE cell_old.item_id)
                 /\ cell.max_stack_size = cell_old.max_stack_size
        ELSE /\ ret = Returned(Some(0))
             /\ cell = cell_old

\* a remove_items that asked for more than the cell held and emptied it
C19_Witness ==
    /\ op = "remove_items"
    /\ cell_old.quantity > 1
    /\ args[1] > cell_old.quantity
    /\ ret = Returned(Some(cell_old.quantity))
    /\ cell.quantity = 0
    /\ cell.item_id = None

\* C20: constructing a cell with a positive quantity and no item_id raises and
\* produces no cell; constructing a cell with quantity 0 and an item_id, or
\* assigning quantity 0 to a cell that has an item_id, or an item_id to a cell
\* of quantity 0, succeeds and leaves item_id None.
C20_QuantityNeedsItemId ==
    /\ (op = "InventoryCellComponent" /\ args[1].quantity # None
            /\ args[1].quantity[1] > 0 /\ args[1].item_id = None) =>
          /\ ret = Raised("ValidationError: quantity > 0 without an item_id")
          /\ cell = cell_old
    /\ (op = "InventoryCellComponent" /\ args[1].item_id # None
            /\ (args[1].quantity = None \/ args[1].quantity = Some(0))) =>
          /\ ret.exc = "none"
          /\ cell.item_id = None
          /\ cell.quantity = 0
    /\ (op = "quantity=" /\ args[1] = 0 /\ cell_old.item_id # None) =>
          /\ ret.exc = "none"
          /\ cell.item_id = None
          /\ cell.quantity = 0
    /\ (op = "item_id=" /\ args[1] # None /\ cell_old.quantity = 0) =>
          /\ ret.exc = "none"
          /\ cell.item_id = None
          /\ cell.quantity = 0

\* quantity 0 assigned to a cell that held several items
C20_Witness ==
    /\ op = "quantity="
    /\ args[1] = 0
    /\ cell_old.item_id # None
    /\ cell_old.quantity > 1
    /\ cell.item_id = None
    /\ cell.quantity = 0

\* a construction with quantity 2 and no item_id that raised
C20_WitnessRaise ==
    /\ op = "InventoryCellComponent"
    /\ args[1].quantity = Some(2)
    /\ args[1].item_id = None
    /\ ret.exc # "none"

(***************************************************************************)
(* SpecInv: an InventoryComponent constructed from a list of cells, then   *)
(* driven by add_item, remove_item and clear_all and asked has_item,       *)
(* get_item_count, get_empty_cells_count and is_full.                      *)
(***************************************************************************)
StackSizes == {1, 2}    \* the max_stack_size of the cells of an inventory
CellLimits == {1, 2, 3} \* the max_cells of an inventory

Quantities == (0 - 1)..MaxQuantity

\* the max_stack_size argument of add_item: absent, invalid, or a stack size
StackArgs == {None, Some(0), Some(2)}

\* the cells a list can hold: what add_items and remove_items leave of an empty cell
InvCells ==
    {c \in [item_id : Opt(Items), quantity : 0..2, max_stack_size : StackSizes,
            slot_type : {None}, is_equipped : {FALSE}] :
        /\ c.quantity <= c.max_stack_size
        /\ c.quantity = 0 <=> c.item_id = None}

\* the lists handed to the constructor
CellLists == UNION {[1..n -> InvCells] : n \in 0..2}

\* InventoryComponent(cells=..., max_cells=..., default_max_stack_size=...)
InitInv ==
    /\ \E cs \in CellLists, limit \in CellLimits, default \in StackSizes :
          /\ inv = InventoryComponent_init(cs, limit, default)
          /\ args = <<cs, limit, default>>
    /\ inv_old = inv
    /\ op = "__init__"
    /\ ret = Returned(None)
    /\ NoStat
    /\ NoCollection
    /\ NoCell
    /\ NoCallInProgress

\* every call on the inventory: the instance before it is kept, the rest untouched
InvCall(name, a) ==
    /\ inv_old' = inv
    /\ op' = name
    /\ args' = a
    /\ UNCHANGED <<stat, stat_old, stats, stats_old, max_stats, resets, cell, cell_old>>
    /\ UNCHANGED <<pc, remaining>>

AddItem ==
    \E item_id \in Items, quantity \in Quantities, max_stack_size \in StackArgs :
        LET out == add_item(inv, item_id, quantity, max_stack_size)
        IN  /\ inv' = out.inv
            /\ ret' = out.ret
            /\ InvCall("add_item", <<item_id, quantity, max_stack_size>>)

RemoveItem ==
    \E item_id \in Items, quantity \in Quantities :
        LET out == remove_item(inv, item_id, quantity)
        IN  /\ inv' = out.inv
            /\ ret' = out.ret
            /\ InvCall("remove_item", <<item_id, quantity>>)

ClearAll ==
    /\ inv' = clear_all(inv)
    /\ ret' = Returned(None)
    /\ InvCall("clear_all", <<>>)

HasItem ==
    \E item_id \in Items, quantity \in Quantities :
        /\ inv' = inv
        /\ ret' = Returned(Some(has_item(inv, item_id, quantity)))
        /\ InvCall("has_item", <<item_id, quantity>>)

GetItemCount ==
    \E item_id \in Items :
        /\ inv' = inv
        /\ ret' = Returned(Some(get_item_count(inv, item_id)))
        /\ InvCall("get_item_count", <<item_id>>)

GetEmptyCellsCount ==
    /\ inv' = inv
    /\ ret' = Returned(Some(get_empty_cells_count(inv)))
    /\ InvCall("get_empty_cells_count", <<>>)

IsFull ==
    /\ inv' = inv
    /\ ret' = Returned(Some(inventory_is_full(inv)))
    /\ InvCall("is_full", <<>>)

NextInv ==
    \/ AddItem
    \/ RemoveItem
    \/ ClearAll
    \/ HasItem
    \/ GetItemCount
    \/ GetEmptyCellsCount
    \/ IsFull

SpecInv == InitInv /\ [][NextInv]_vars

(***************************************************************************)
(* SpecRoundTrip: the cell of SpecCell, which is also serialized with      *)
(* model_dump() and constructed again from the record.                     *)
(***************************************************************************)
RoundTripCell ==
    LET out == InventoryCellComponent_init(cell_model_dump(cell))
    IN  /\ cell' = IF out.cell = None THEN cell ELSE out.cell[1]
        /\ ret' = out.ret
        /\ CellCall("round_trip", <<cell_model_dump(cell)>>)

NextRoundTrip ==
    \/ AddItems
    \/ RemoveItems
    \/ ClearSlot
    \/ RoundTripCell

SpecRoundTrip == InitCell /\ [][NextRoundTrip]_vars

\* C21: a cell serialized to its record and constructed again from the record
\* equals the original field by field (same quantity, item_id, max_stack_size).
C21_RoundTripEqual ==
    op = "round_trip" =>
        /\ ret.exc = "none"
        /\ cell = cell_old

(***************************************************************************)
(* Claims about InventoryComponent.  The cells of the last call are told   *)
(* apart by what they were before it.                                      *)
(***************************************************************************)
\* cell k held the item of the call before the call
WasMatching(k) == k <= Len(inv_old.cells) /\ holds_item(inv_old.cells[k], args[1])

\* cell k was empty before the call
WasEmpty(k) == k <= Len(inv_old.cells) /\ is_empty(inv_old.cells[k])

\* cell k was appended by the call
IsNew(k) == k > Len(inv_old.cells)

\* cell k holds more after the call than before it
Received(k) == IsNew(k) \/ inv.cells[k].quantity > inv_old.cells[k].quantity

\* C22: add_item is two-pass first-fit: the cells that hold item_id are topped
\* up in list order; only the remainder goes to the empty cells in list order;
\* a cell is appended only when no cell is empty and there are fewer than
\* max_cells cells.  So nothing goes to an empty or new cell while a cell that
\* held the item has free space, and no cell is appended while one is empty.
C22_TwoPassFirstFit ==
    (op = "add_item" /\ args[2] > 0) =>
        LET n == Len(inv.cells)
            n0 == Len(inv_old.cells)
        IN  /\ n >= n0
            /\ \A k \in 1..n :
                  \* nothing outside the matching cells before these are full
                  /\ (Received(k) /\ ~WasMatching(k)) =>
                        \A j \in 1..n0 : WasMatching(j) => is_full(inv.cells[j])
                  \* each pass in list order: a later cell only after an earlier one is full
                  /\ Received(k) =>
                        \A j \in 1..(k - 1) :
                            (WasMatching(j) = WasMatching(k)
                             /\ (WasMatching(j) \/ WasEmpty(j) \/ IsNew(j)))
                                => is_full(inv.cells[j])
                  /\ Received(k) => inv.cells[k].item_id = Some(args[1])
                  \* cells of another kind, and what did not receive, stay
                  /\ (k <= n0 /\ ~Received(k)) => inv.cells[k] = inv_old.cells[k]
                  /\ k <= n0 => inv.cells[k].max_stack_size = inv_old.cells[k].max_stack_size
                  /\ (k <= n0 /\ ~WasMatching(k) /\ ~WasEmpty(k)) =>
                        inv.cells[k] = inv_old.cells[k]
            \* a cell is appended only when none is empty and below max_cells
            /\ n > n0 =>
                  /\ \A k \in 1..n : ~is_empty(inv.cells[k])
                  /\ n <= inv.max_cells
                  /\ \A k \in (n0 + 1)..n :
                        inv.cells[k].max_stack_size =
                            (IF args[3] # None THEN args[3][1] ELSE inv.default_max_stack_size)

\* one add_item that topped up a cell holding the item, then filled an empty
\* cell that stood before it in the list, then appended a cell
C22_Witness ==
    /\ op = "add_item"
    /\ ret = Returned(Some(args[2]))
    /\ Len(inv_old.cells) = 2
    /\ Len(inv.cells) = 3
    /\ WasEmpty(1)
    /\ WasMatching(2)
    /\ Received(1)
    /\ Received(2)

\* C23: add_item(item_id, quantity) returns the amount actually added: the
\* result r has 0 <= r <= max(quantity, 0), get_item_count(item_id) grows by
\* exactly r, and for quantity <= 0 it returns 0 and changes nothing.
C23_ReturnsAmountAdded ==
    op = "add_item" =>
        /\ (args[3] = None \/ args[3][1] >= 1) => ret.exc = "none"
        /\ ret.exc = "none" =>
              LET r == ret.val[1]
              IN  /\ 0 <= r
                  /\ r <= (IF args[2] > 0 THEN args[2] ELSE 0)
                  /\ get_item_count(inv, args[1]) = get_item_count(inv_old, args[1]) + r
                  /\ \A other \in Items \ {args[1]} :
                        get_item_count(inv, other) = get_item_count(inv_old, other)
        /\ args[2] <= 0 =>
              /\ ret = Returned(Some(0))
              /\ inv = inv_old

\* a partial success: some of the quantity was added, not all of it
C23_Witness ==
    /\ op = "add_item"
    /\ ret.exc = "none"
    /\ ret.val[1] > 0
    /\ ret.val[1] < args[2]
    /\ get_item_count(inv_old, args[1]) > 0

\* C24: when the inventory has max_cells cells and every cell is full,
\* add_item of any item and any quantity returns 0, appends no cell and
\* leaves every cell as it was.
C24_FullInventoryRefuses ==
    (/\ op = "add_item"
     /\ Len(inv_old.cells) = inv_old.max_cells
     /\ \A k \in 1..Len(inv_old.cells) : is_full(inv_old.cells[k]))
        => /\ ret = Returned(Some(0))
           /\ inv = inv_old

\* a positive quantity of a kind the inventory holds, offered to two full cells
C24_Witness ==
    /\ op = "add_item"
    /\ args[2] > 0
    /\ inv_old.max_cells = 2
    /\ Len(inv_old.cells) = 2
    /\ \A k \in 1..2 : is_full(inv_old.cells[k])
    /\ holds_item(inv_old.cells[2], args[1])
    /\ ret = Returned(Some(0))

\* C25: len(cells) <= max_cells in every reachable state: after a construction
\* (one with more than max_cells cells keeps the first max_cells) and after
\* every add_item, with or without a stack size, remove_item and clear_all.
C25_CellsWithinMaxCells ==
    /\ Len(inv.cells) <= inv.max_cells
    /\ op = "__init__" =>
          inv.cells = SubSeq(args[1], 1, IF Len(args[1]) < args[2] THEN Len(args[1]) ELSE args[2])

\* an add_item with an explicit stack size that appended the last cell the
\* limit allows and could not place the rest
C25_Witness ==
    /\ op = "add_item"
    /\ args[3] # None
    /\ Len(inv.cells) > Len(inv_old.cells)
    /\ Len(inv.cells) = inv.max_cells
    /\ ret.exc = "none"
    /\ ret.val[1] < args[2]

\* a construction from more cells than max_cells
C25_WitnessTruncated ==
    /\ op = "__init__"
    /\ Len(args[1]) > args[2]
    /\ Len(inv.cells) = args[2]

\* C26: remove_item(item_id, quantity) with quantity > 0 returns
\* min(quantity, get_item_count(item_id) before the call) and lowers the total
\* of the item by that amount; it drains the cells holding the item in list
\* order, touching a later one only after every earlier one is emptied; every
\* cell it empties ends with quantity 0 and item_id None.
C26_RemoveDrainsInOrder ==
    (op = "remove_item" /\ args[2] > 0) =>
        LET before == get_item_count(inv_old, args[1])
            taken == IF args[2] < before THEN args[2] ELSE before
            n == Len(inv_old.cells)
            Touched(k) == inv.cells[k] # inv_old.cells[k]
        IN  /\ ret = Returned(Some(taken))
            /\ get_item_count(inv, args[1]) = before - taken
            /\ Len(inv.cells) = n
            /\ \A k \in 1..n :
                  /\ Touched(k) => WasMatching(k)
                  /\ Touched(k) =>
                        \A j \in 1..(k - 1) : WasMatching(j) => inv.cells[j].quantity = 0
                  /\ (Touched(k) /\ inv.cells[k].quantity = 0) => inv.cells[k].item_id = None
                  /\ Touched(k) =>
                        /\ inv.cells[k].quantity < inv_old.cells[k].quantity
                        /\ inv.cells[k].max_stack_size = inv_old.cells[k].max_stack_size
                        /\ inv.cells[k].quantity > 0 => inv.cells[k].item_id = Some(args[1])

\* a remove_item that emptied the first cell holding the item and took a part
\* of the second one
C26_Witness ==
    /\ op = "remove_item"
    /\ Len(inv_old.cells) >= 2
    /\ \E j, k \in 1..Len(inv_old.cells) :
          /\ j < k
          /\ WasMatching(j)
          /\ WasMatching(k)
          /\ inv.cells[j].quantity = 0
          /\ inv.cells[j].item_id = None
          /\ inv.cells[k].quantity > 0
          /\ inv.cells[k].quantity < inv_old.cells[k].quantity

\* a remove_item that asked for more than the inventory held
C26_WitnessPartial ==
    /\ op = "remove_item"
    /\ get_item_count(inv_old, args[1]) > 0
    /\ ret.val[1] < args[2]

\* the sum of the quantities of the cells from k on whose item_id is item_id
RECURSIVE SumHolding(_, _, _)
SumHolding(cs, k, item_id) ==
    IF k > Len(cs) THEN 0
    ELSE (IF cs[k].item_id = Some(item_id) THEN cs[k].quantity ELSE 0)
         + SumHolding(cs, k + 1, item_id)

\* C27: in every reachable inventory, for every item and quantity,
\* has_item(item_id, quantity) is true exactly when quantity <= 0 or
\* get_item_count(item_id) >= quantity, where get_item_count is the sum of the
\* quantities of the cells holding item_id; neither query changes the inventory.
C27_HasItemIffCount ==
    /\ \A item_id \in Items :
          /\ get_item_count(inv, item_id) = SumHolding(inv.cells, 1, item_id)
          /\ \A quantity \in Quantities :
                has_item(inv, item_id, quantity)
                    <=> (quantity <= 0 \/ SumHolding(inv.cells, 1, item_id) >= quantity)
    /\ op = "has_item" =>
          /\ inv = inv_old
          /\ ret = Returned(Some(args[2] <= 0
                                 \/ SumHolding(inv_old.cells, 1, args[1]) >= args[2]))
    /\ op = "get_item_count" =>
          /\ inv = inv_old
          /\ ret = Returned(Some(SumHolding(inv_old.cells, 1, args[1])))

\* has_item answered TRUE for a quantity that no single cell holds
C27_Witness ==
    /\ op = "has_item"
    /\ ret = Returned(Some(TRUE))
    /\ args[2] = SumHolding(inv.cells, 1, args[1])
    /\ \A k \in 1..Len(inv.cells) : inv.cells[k].quantity < args[2]
    /\ \E k \in 1..Len(inv.cells) : inv.cells[k].item_id \notin {None, Some(args[1])}

\* C28: is_full() is true exactly when len(cells) = max_cells and every cell
\* has quantity >= max_stack_size; an inventory with fewer than max_cells
\* cells is not full even when all its cells are.
C28_IsFullIffSaturated ==
    /\ inventory_is_full(inv)
          <=> /\ Len(inv.cells) = inv.max_cells
              /\ \A k \in 1..Len(inv.cells) : inv.cells[k].quantity >= inv.cells[k].max_stack_size
    /\ op = "is_full" =>
          /\ inv = inv_old
          /\ ret = Returned(Some(/\ Len(inv_old.cells) = inv_old.max_cells
                                 /\ \A k \in 1..Len(inv_old.cells) :
                                       inv_old.cells[k].quantity
                                           >= inv_old.cells[k].max_stack_size))

\* is_full answered FALSE for an inventory whose cells are all full but fewer
\* than max_cells
C28_Witness ==
    /\ op = "is_full"
    /\ ret = Returned(Some(FALSE))
    /\ Len(inv.cells) >= 1
    /\ Len(inv.cells) < inv.max_cells
    /\ \A k \in 1..Len(inv.cells) : inv.cells[k].quantity >= inv.cells[k].max_stack_size

\* is_full answered TRUE
C28_WitnessFull ==
    /\ op = "is_full"
    /\ ret = Returned(Some(TRUE))
    /\ Len(inv.cells) >= 2

\* C29: clear_all() empties every cell in place: the number of cells and each
\* cell's max_stack_size stay, every cell has quantity 0 and item_id None.
C29_ClearAllInPlace ==
    op = "clear_all" =>
        /\ Len(inv.cells) = Len(inv_old.cells)
        /\ inv.max_cells = inv_old.max_cells
        /\ inv.default_max_stack_size = inv_old.default_max_stack_size
        /\ \A k \in 1..Len(inv.cells) :
              /\ inv.cells[k].max_stack_size = inv_old.cells[k].max_stack_size
              /\ inv.cells[k].quantity = 0
              /\ inv.cells[k].item_id = None

\* clear_all on an inventory of cells of two kinds and two stack sizes
C29_Witness ==
    /\ op = "clear_all"
    /\ Len(inv_old.cells) >= 2
    /\ inv_old.cells[1].quantity > 0
    /\ inv_old.cells[2].quantity > 0
    /\ inv_old.cells[1].item_id # inv_old.cells[2].item_id
    /\ inv_old.cells[1].max_stack_size # inv_old.cells[2].max_stack_size
    /\ Len(inv.cells) = Len(inv_old.cells)

\* what an inventory can still take of item_id: the free space of the cells
\* holding it, the empty cells, and the cells that can still be appended
RECURSIVE FreeInCells(_, _, _)
FreeInCells(cs, k, item_id) ==
    IF k > Len(cs) THEN 0
    ELSE (IF cs[k].quantity = 0 THEN cs[k].max_stack_size
          ELSE IF cs[k].item_id = Some(item_id) THEN cs[k].max_stack_size - cs[k].quantity
          ELSE 0)
         + FreeInCells(cs, k + 1, item_id)

FreeCapacity(i, item_id, stack_size) ==
    FreeInCells(i.cells, 1, item_id) + (i.max_cells - Len(i.cells)) * stack_size

\* C30: from any reachable inventory and for any a, b > 0 of one item kind,
\* add_item(a) then add_item(b) leaves the same total of the item as one
\* add_item(a + b), whenever the capacity is not exceeded.
C30_AddItemAssociative ==
    \A item_id \in Items, a \in 1..MaxQuantity, b \in 1..MaxQuantity,
       max_stack_size \in {None, Some(2)} :
        LET stack_size == IF max_stack_size = None THEN inv.default_max_stack_size
                          ELSE max_stack_size[1]
            first == add_item(inv, item_id, a, max_stack_size)
            second == add_item(first.inv, item_id, b, max_stack_size)
            once == add_item(inv, item_id, a + b, max_stack_size)
        IN  a + b <= FreeCapacity(inv, item_id, stack_size) =>
                /\ second.ret.exc = "none"
                /\ once.ret.exc = "none"
                /\ get_item_count(second.inv, item_id) = get_item_count(once.inv, item_id)

\* an inventory left by an add_item in which a further a + b = 3 items fit
\* only by topping up a cell, filling an empty one and appending a third
C30_Witness ==
    /\ op = "add_item"
    /\ ret.exc = "none"
    /\ Len(inv.cells) = 2
    /\ inv.max_cells = 3
    /\ \E item_id \in Items :
          /\ FreeCapacity(inv, item_id, inv.default_max_stack_size) = 3
          /\ \E k \in 1..2 : holds_item(inv.cells[k], item_id) /\ ~is_full(inv.cells[k])
          /\ \E k \in 1..2 : is_empty(inv.cells[k])
          /\ get_item_count(add_item(add_item(inv, item_id, 1, None).inv, item_id, 2, None).inv,
                            item_id) = get_item_count(inv, item_id) + 3

(***************************************************************************)
(* Claims across the components.                                           *)
(***************************************************************************)
\* the operations that report limits through their results
TotalOperations ==
    {"modify_value", "set_base_value", "reset_to_base",
     "remove_stat", "modify_stat", "set_stat_base_value", "set_stat_current_value",
     "reset_stat_to_base", "reset_all_to_base", "clear_all_stats",
     "add_items", "remove_items", "clear_slot",
     "add_item", "remove_item", "has_item", "get_item_count", "get_empty_cells_count",
     "is_full", "clear_all"}

\* C31: only add_stat and the construction or validation of a cell end in an
\* error; the stat methods, the collection's lookups and delegations, the
\* cell's add_items/remove_items/clear_slot and the inventory's methods never
\* do, for any arguments.
C31_OnlyAddStatAndCellValidationRaise ==
    op \in TotalOperations => ret.exc = "none"

\* C32: after min_value or max_value of a stat that was within its bounds is
\* assigned, base_value and current_value lie within the new bounds.
C32_BoundsAssignmentClamps ==
    (/\ op \in {"min_value=", "max_value="}
     /\ WithinBounds(stat_old.base_value, stat_old.min_value, stat_old.max_value)
     /\ WithinBounds(stat_old.current_value, stat_old.min_value, stat_old.max_value)
     /\ BoundsOrdered(stat))
        => /\ WithinBounds(stat.base_value, stat.min_value, stat.max_value)
           /\ WithinBounds(stat.current_value, stat.min_value, stat.max_value)

\* C33: a cell that add_item creates gets the max_stack_size argument when one
\* is given and default_max_stack_size otherwise; items placed into a cell
\* that was already there and empty are limited by that cell's own
\* max_stack_size, whatever the argument.
C33_StackSizeOfNewCells ==
    (op = "add_item" /\ ret.exc = "none") =>
        \A k \in 1..Len(inv.cells) :
            /\ IsNew(k) =>
                  inv.cells[k].max_stack_size =
                      (IF args[3] # None THEN args[3][1] ELSE inv_old.default_max_stack_size)
            /\ WasEmpty(k) =>
                  /\ inv.cells[k].max_stack_size = inv_old.cells[k].max_stack_size
                  /\ inv.cells[k].quantity <= inv_old.cells[k].max_stack_size

\* an add_item with stack size 2 into an inventory whose default is 1: the
\* empty cell of stack size 1 took one item, the appended cell has stack size 2
C33_Witness ==
    /\ op = "add_item"
    /\ args[3] = Some(2)
    /\ inv_old.default_max_stack_size = 1
    /\ \E k \in 1..Len(inv_old.cells) :
          /\ WasEmpty(k)
          /\ inv_old.cells[k].max_stack_size = 1
          /\ inv.cells[k].quantity = 1
    /\ Len(inv.cells) = Len(inv_old.cells) + 1
    /\ inv.cells[Len(inv.cells)].max_stack_size = 2
    /\ inv.cells[Len(inv.cells)].quantity = 2

\* an add_item without a stack size that appended a cell of the default size 2
C33_WitnessDefault ==
    /\ op = "add_item"
    /\ args[3] = None
    /\ inv_old.default_max_stack_size = 2
    /\ Len(inv.cells) > Len(inv_old.cells)
    /\ inv.cells[Len(inv.cells)].max_stack_size = 2

\* C34: add_item is maximal: for quantity > 0 the result r is
\* min(quantity, free space of the cells holding the item + capacity of the
\* empty cells + (max_cells - len(cells)) * stack size of new cells), and after
\* a call with r < quantity every cell holding the item is full, no cell is
\* empty and len(cells) = max_cells.
C34_AddItemMaximal ==
    (op = "add_item" /\ args[2] > 0 /\ ret.exc = "none") =>
        LET stack_size == IF args[3] # None THEN args[3][1]
                          ELSE inv_old.default_max_stack_size
            capacity == FreeCapacity(inv_old, args[1], stack_size)
            r == ret.val[1]
        IN  /\ r = (IF args[2] < capacity THEN args[2] ELSE capacity)
            /\ r < args[2] =>
                  /\ \A k \in 1..Len(inv.cells) :
                        /\ ~is_empty(inv.cells[k])
                        /\ holds_item(inv.cells[k], args[1]) => is_full(inv.cells[k])
                  /\ Len(inv.cells) = inv.max_cells

\* an add_item that topped up a cell holding the item, appended a cell next
\* to a cell of the other kind and still could not place everything
C34_Witness ==
    /\ op = "add_item"
    /\ ret.exc = "none"
    /\ ret.val[1] < args[2]
    /\ Len(inv_old.cells) = 2
    /\ Len(inv.cells) = 3
    /\ \E j, k \in 1..2 :
          /\ WasMatching(j)
          /\ Received(j)
          /\ ~WasMatching(k)
          /\ ~WasEmpty(k)

\* C35: add_item, remove_item and clear_all never remove or reorder a cell:
\* the list never gets shorter, every cell keeps its position (its
\* max_stack_size, and its item while it is not emptied), new cells come
\* after the old ones, and what add_item puts outside the cells holding the
\* item goes to the first empty cell before any later empty or new cell.
C35_SlotOrderPreserved ==
    op \in {"add_item", "remove_item", "clear_all"} =>
        LET n0 == Len(inv_old.cells)
            e == first_empty_cell(inv_old.cells)
        IN  /\ Len(inv.cells) >= n0
            /\ op # "add_item" => Len(inv.cells) = n0
            /\ \A k \in 1..n0 :
                  /\ inv.cells[k].max_stack_size = inv_old.cells[k].max_stack_size
                  /\ (~is_empty(inv_old.cells[k]) /\ ~is_empty(inv.cells[k])) =>
                        inv.cells[k].item_id = inv_old.cells[k].item_id
            /\ (/\ op = "add_item"
                /\ e # None
                /\ \E k \in 1..Len(inv.cells) : Received(k) /\ ~WasMatching(k))
                  => /\ Received(e[1])
                     /\ \A k \in 1..Len(inv.cells) :
                           (Received(k) /\ ~WasMatching(k) /\ k # e[1])
                               => (k > e[1] /\ is_full(inv.cells[e[1]]))

\* an add_item that reused the empty first cell, which stands before a cell
\* that is not empty, and appended a cell only after that
C35_Witness ==
    /\ op = "add_item"
    /\ Len(inv_old.cells) = 2
    /\ WasEmpty(1)
    /\ ~WasEmpty(2)
    /\ Received(1)
    /\ Len(inv.cells) = 3

\* a remove_item that emptied the first cell and left it in its place before
\* a cell that is not empty
C35_WitnessEmptied ==
    /\ op = "remove_item"
    /\ Len(inv.cells) = 2
    /\ ~is_empty(inv_old.cells[1])
    /\ is_empty(inv.cells[1])
    /\ ~is_empty(inv.cells[2])

\* C36: every cell of an inventory satisfies the cell invariants in every
\* state reached through add_item (any stack size for new cells), remove_item
\* and clear_all: 0 <= quantity <= max_stack_size, and quantity = 0 exactly
\* when item_id is None.
C36_EveryCellInvariant ==
    \A k \in 1..Len(inv.cells) :
        /\ 0 <= inv.cells[k].quantity
        /\ inv.cells[k].quantity <= inv.cells[k].max_stack_size
        /\ inv.cells[k].quantity = 0 <=> inv.cells[k].item_id = None

\* an add_item, into an inventory that was constructed empty or emptied, that
\* asked for more than fits and left a full cell of an explicit stack size
C36_Witness ==
    /\ op = "add_item"
    /\ args[3] = Some(2)
    /\ inv.default_max_stack_size = 1
    /\ \A k \in 1..Len(inv_old.cells) : is_empty(inv_old.cells[k])
    /\ Len(inv.cells) > Len(inv_old.cells)
    /\ ret.exc = "none"
    /\ ret.val[1] < args[2]
    /\ inv.cells[Len(inv.cells)].quantity = 2

\* C37: add_item(X, q) and remove_item(X, q) leave every cell holding another
\* item Y as it is, so get_item_count(Y) is the same before and after.
C37_OtherItemsUntouched ==
    op \in {"add_item", "remove_item"} =>
        /\ \A k \in 1..Len(inv_old.cells) :
              (~is_empty(inv_old.cells[k]) /\ inv_old.cells[k].item_id # Some(args[1]))
                  => inv.cells[k] = inv_old.cells[k]
        /\ \A other \in Items \ {args[1]} :
              SumHolding(inv.cells, 1, other) = SumHolding(inv_old.cells, 1, other)

\* a remove_item that had to pass a cell of the other kind to reach its own
C37_Witness ==
    /\ op = "remove_item"
    /\ Len(inv_old.cells) >= 2
    /\ ~is_empty(inv_old.cells[1])
    /\ inv_old.cells[1].item_id # Some(args[1])
    /\ WasMatching(2)
    /\ ret.val[1] > 0
    /\ ret.val[1] < args[2]

\* an add_item that passed a cell of the other kind with free space
C37_WitnessAdd ==
    /\ op = "add_item"
    /\ Len(inv_old.cells) >= 1
    /\ ~is_empty(inv_old.cells[1])
    /\ ~is_full(inv_old.cells[1])
    /\ inv_old.cells[1].item_id # Some(args[1])
    /\ ret.exc = "none"
    /\ ret.val[1] > 0

\* the stats of sts whose name is not name, in their order
OthersInOrder(sts, name) == SelectSeq(sts, LAMBDA s : s.name # name)

\* C39: add_stat with replace_if_exists on a name the collection holds removes
\* the old stat and appends the new one: the replaced name ends up last and
\* the other stats keep their relative order.
C39_ReplacedStatMovesLast ==
    (op = "add_stat" /\ has_stat(stats_old, args[1]) /\ args[7] /\ ret.exc = "none") =>
        /\ Len(stats) >= 1
        /\ stats[Len(stats)].name = args[1]
        /\ Some(stats[Len(stats)]) = ret.val
        /\ SubSeq(stats, 1, Len(stats) - 1) = OthersInOrder(stats_old, args[1])

\* the first of two stats was replaced and now stands behind the other one
C39_Witness ==
    /\ op = "add_stat"
    /\ args[7]
    /\ Len(stats_old) = 2
    /\ stats_old[1].name = args[1]
    /\ Len(stats) = 2
    /\ stats[1] = stats_old[2]
    /\ stats[2].name = args[1]

(***************************************************************************)
(* SpecAddItem: add_item run one pass of its while loop at a time.  A call *)
(* checks the quantity and runs the first loop; if something remains it    *)
(* enters the while loop (pc = "overflow"), whose passes are single steps. *)
(* A call in progress keeps running: the loop step is weakly fair.         *)
(***************************************************************************)
AddItemCall ==
    /\ pc = "done"
    /\ \E item_id \in Items, quantity \in Quantities, max_stack_size \in StackArgs :
          LET fill == add_item_fill(inv.cells, 1, item_id, quantity)
          IN  /\ op' = "add_item"
              /\ args' = <<item_id, quantity, max_stack_size>>
              /\ inv_old' = inv
              /\ IF quantity <= 0
                 THEN /\ inv' = inv
                      /\ ret' = Returned(Some(0))
                      /\ pc' = "done"
                      /\ remaining' = 0
                 ELSE /\ inv' = [inv EXCEPT !.cells = fill.cells]
                      /\ ret' = IF fill.returned THEN Returned(Some(quantity))
                                ELSE Returned(None)
                      /\ pc' = IF fill.returned THEN "done" ELSE "overflow"
                      /\ remaining' = IF fill.returned THEN 0 ELSE fill.remaining
    /\ UNCHANGED <<stat, stat_old, stats, stats_old, max_stats, resets, cell, cell_old>>

\* the test of the while loop and, when it holds, one pass through its body
AddItemOverflowStep ==
    /\ pc = "overflow"
    /\ LET step == add_item_overflow_step(inv, args[1], remaining, args[3])
       IN  IF remaining <= 0
           THEN /\ inv' = inv
                /\ ret' = Returned(Some(args[2] - remaining))
                /\ pc' = "done"
                /\ remaining' = 0
           ELSE /\ inv' = step.inv
                /\ ret' = IF step.exc # "none" THEN Raised(step.exc)
                          ELSE IF step.stop THEN Returned(Some(args[2] - step.remaining))
                          ELSE Returned(None)
                /\ pc' = IF step.stop THEN "done" ELSE "overflow"
                /\ remaining' = IF step.stop THEN 0 ELSE step.remaining
    /\ UNCHANGED <<inv_old, op, args>>
    /\ UNCHANGED <<stat, stat_old, stats, stats_old, max_stats, resets, cell, cell_old>>

\* remove_item between the calls of add_item
RemoveItemBetween ==
    /\ pc = "done"
    /\ RemoveItem

NextAddItem ==
    \/ AddItemCall
    \/ AddItemOverflowStep
    \/ RemoveItemBetween

SpecAddItem == InitInv /\ [][NextAddItem]_vars /\ WF_vars(AddItemOverflowStep)

\* the steps end where the whole call ends
AddItemStepsAgree ==
    (op = "add_item" /\ pc = "done") =>
        LET out == add_item(inv_old, args[1], args[2], args[3])
        IN  /\ inv = out.inv
            /\ ret = out.ret

\* C38: add_item always terminates: every pass of the while loop either
\* places at least one item, which lowers the remaining amount, or finds no
\* empty cell and no room for a new cell and leaves the loop; a call that
\* entered the loop comes out of it.
C38_AddItemTerminates ==
    /\ [][(pc = "overflow" /\ pc' = "overflow") =>
              /\ remaining > 0
              /\ remaining' < remaining
              /\ remaining' >= 0]_vars
    /\ (pc = "overflow") ~> (pc = "done")

\* inside the loop after a pass that appended a cell, with more to place
C38_Witness ==
    /\ pc = "overflow"
    /\ remaining > 0
    /\ remaining < args[2]
    /\ Len(inv.cells) > Len(inv_old.cells)
    /\ Len(inv.cells) < inv.max_cells

=============================================================================
